---- MODULE Spec2Model ----
(***************************************************************************)
(* Model of generate.py: the three word-tuple generators                   *)
(*   generate_alphabetical_order_recall_words                              *)
(*   generate_sorting_algorithm_words                                      *)
(*   generate_word_tuples                                                  *)
(* over the module-level word list valid_words.                            *)
(*                                                                         *)
(* A word is a sequence of one-character strings.  Every call of the       *)
(* random module is a nondeterministic choice over its possible results.   *)
(* A Python exception ends the run with pc = "raised".                     *)
(***************************************************************************)
EXTENDS Integers, Sequences, FiniteSets

VARIABLES
    valid_words,   \* the module-level word list (line 8)
    pc,            \* position of the running call
    called,        \* the function called at top level, "" before the call
    caller,        \* "" for a top-level call, else the calling function
    alpha,         \* frame of generate_alphabetical_order_recall_words
    sort,          \* frame of generate_sorting_algorithm_words
    mixed,         \* frame of generate_word_tuples
    result,        \* value returned by the top-level call
    exception      \* name of the exception raised, "" if none

vars == <<valid_words, pc, called, caller, alpha, sort, mixed, result, exception>>

----------------------------------------------------------------------------
(* Bounds of the inputs *)

MaxWords == 3          \* longest word list drawn from Pool
MaxCount == 1          \* largest count argument
MaxTupleSize == 3      \* largest tuple_size argument
MaxRank == 3           \* largest rank argument
MaxMinPrefixLength == 2   \* largest min_prefix_length argument

MaxDistance == 25      \* line 31
MaxAttempts == 26      \* lines 69, 76
AlphabetSize == 26     \* lines 64, 72

----------------------------------------------------------------------------
(* Strings *)

ascii_lowercase ==
    << "a","b","c","d","e","f","g","h","i","j","k","l","m",
       "n","o","p","q","r","s","t","u","v","w","x","y","z" >>

ascii_uppercase ==
    << "A","B","C","D","E","F","G","H","I","J","K","L","M",
       "N","O","P","Q","R","S","T","U","V","W","X","Y","Z" >>

Max(a, b) == IF a >= b THEN a ELSE b
Min(a, b) == IF a <= b THEN a ELSE b

\* str.lower() of one character
LowerChar(c) ==
    IF \E k \in 1..AlphabetSize : ascii_uppercase[k] = c
    THEN ascii_lowercase[CHOOSE k \in 1..AlphabetSize : ascii_uppercase[k] = c]
    ELSE c

\* str.lower()
Lower(w) == [k \in 1..Len(w) |-> LowerChar(w[k])]

\* letter in string.ascii_lowercase, for a one-character letter
InAsciiLowercase(c) == \E k \in 1..AlphabetSize : ascii_lowercase[k] = c

\* string.ascii_lowercase.index(letter), 0-based
LetterIndex(c) == (CHOOSE k \in 1..AlphabetSize : ascii_lowercase[k] = c) - 1

\* w[:n], Python slicing with a possibly negative n
Slice(w, n) ==
    IF n >= 0 THEN SubSeq(w, 1, Min(n, Len(w)))
    ELSE SubSeq(w, 1, Max(Len(w) + n, 0))

\* p.startswith(w)
StartsWith(p, w) == Len(w) <= Len(p) /\ SubSeq(p, 1, Len(w)) = w

\* the elements of a sequence
Range(s) == {s[k] : k \in DOMAIN s}

----------------------------------------------------------------------------
(* generate_alphabetical_order_recall_words: pure parts *)

\* lines 29-33: the (min_distance, max_distance) used for sampling
NormalizeRange(difficulty_range) ==
    LET lo == Max(1, difficulty_range[1])
        hi == Min(MaxDistance, difficulty_range[2])
    IN  IF lo > hi THEN <<hi, lo>> ELSE <<lo, hi>>

\* lines 38-40: the word is indexed under its lower-cased first letter
HasLetter(word) == word # <<>> /\ InAsciiLowercase(LowerChar(word[1]))

\* lines 36-41: letter -> words starting with it, in list order
LetterToWords(words) ==
    LET keys == {LowerChar(words[k][1]) : k \in {n \in DOMAIN words : HasLetter(words[n])}}
        Starts(l) == LET T(w) == HasLetter(w) /\ LowerChar(w[1]) = l
                     IN  SelectSeq(words, T)
    IN  [l \in keys |-> Starts(l)]

\* line 43: sorted(letter_to_words.keys())
SortedLetters(ltw) ==
    LET T(l) == l \in DOMAIN ltw IN SelectSeq(ascii_lowercase, T)

\* NewLetter with the modulus one short
NewLetterShortModulus(start_index, distance) ==
    ascii_lowercase[((start_index + distance) % (AlphabetSize - 1)) + 1]

\* NewLetter with the 0-based index taken as 1-based
NewLetterOffByOne(start_index, distance) ==
    ascii_lowercase[((start_index + distance + 1) % AlphabetSize) + 1]

\* lines 64-65, 72-73: the letter at the given distance from the anchor
NewLetter(start_index, distance) ==
    ascii_lowercase[((start_index + distance) % AlphabetSize) + 1]

\* Unsuitable without the test of used_letters
UnsuitableIgnoringUsed(new_letter, used_letters, ltw) ==
    new_letter \notin DOMAIN ltw

\* line 69: the first operand of the while condition
Unsuitable(new_letter, used_letters, ltw) ==
    new_letter \in used_letters \/ new_letter \notin DOMAIN ltw

\* line 69: the while condition
MustResample(new_letter, used_letters, ltw, attempts) ==
    Unsuitable(new_letter, used_letters, ltw) /\ attempts < MaxAttempts

\* line 76: the slot is given up
GivesUp(attempts) == attempts >= MaxAttempts

\* line 85: the tuple is complete
IsComplete(words_in_tuple, tuple_size) == Len(words_in_tuple) = tuple_size

\* LoopContinues running one iteration too many
LoopContinuesInclusive(i, count) == i <= count

\* lines 45, 139, 178: for _ in range(count)
LoopContinues(i, count) == i < count

----------------------------------------------------------------------------
(* generate_sorting_algorithm_words: pure parts *)

\* lines 118-121: the candidate prefix keys, word[:diff_position].lower()
Prefixes(words, rank) == {Lower(Slice(words[k], rank)) : k \in DOMAIN words}

\* KeysOf grouping the long words by one character less
KeysOfShortPrefix(word, rank, min_prefix_length, prefixes) ==
    LET word_lower == Lower(word)
    IN  IF Len(word_lower) >= rank
        THEN {Slice(word_lower, rank - 1)}
        ELSE IF Len(word_lower) > min_prefix_length
             THEN {prefix \in prefixes : StartsWith(prefix, word_lower)}
             ELSE {}

\* lines 128-135: the keys one word is appended under
KeysOf(word, rank, min_prefix_length, prefixes) ==
    LET word_lower == Lower(word)
    IN  IF Len(word_lower) >= rank
        THEN {Slice(word_lower, rank)}
        ELSE IF Len(word_lower) > min_prefix_length
             THEN {prefix \in prefixes : StartsWith(prefix, word_lower)}
             ELSE {}

\* lines 124-135: prefix -> words indexed under it, in list order
PrefixToWords(words, rank, min_prefix_length) ==
    LET prefixes == Prefixes(words, rank)
        keys == UNION {KeysOf(words[k], rank, min_prefix_length, prefixes) : k \in DOMAIN words}
        Under(p) == LET T(w) == p \in KeysOf(w, rank, min_prefix_length, prefixes)
                    IN  SelectSeq(words, T)
    IN  [p \in keys |-> Under(p)]

\* line 147: the bucket cannot fill a tuple
TooFew(words_with_prefix, tuple_size) == Len(words_with_prefix) < tuple_size

\* line 151: random.sample(population, k): k distinct positions, in any order
Samples(population, k) ==
    { [n \in 1..k |-> population[f[n]]] :
        f \in {g \in [1..k -> DOMAIN population] :
                  \A a, b \in 1..k : a # b => g[a] # g[b]} }

----------------------------------------------------------------------------
(* Inputs *)

W_apple == <<"a","p","p","l","e">>
W_avocado == <<"a","v","o","c","a","d","o">>
W_banana == <<"b","a","n","a","n","a">>
W_blueberry == <<"b","l","u","e","b","e","r","r","y">>
W_cherry == <<"c","h","e","r","r","y">>

\* the word list of the end-to-end scenarios
FruitList == <<W_apple, W_avocado, W_banana, W_blueberry, W_cherry>>

\* words the bounded word lists are drawn from, in list order
Pool ==
    << <<"a","b">>, <<"A","b","c">>, <<"a","b","d">>, <<"b","a">>,
       <<"z","o","o">>, <<"1","u","p">>, <<>> >>

\* the sublists of Pool with at most MaxWords words
SubLists ==
    LET Pick(S) == LET T(k) == k \in S
                   IN  SelectSeq([k \in 1..Len(Pool) |-> k], T)
    IN  { [k \in 1..Len(Pick(S)) |-> Pool[Pick(S)[k]]] :
            S \in {X \in SUBSET (1..Len(Pool)) : Cardinality(X) <= MaxWords} }

WordLists == SubLists \cup {FruitList}

\* the difficulty_range pairs tried: in range, inverted, entirely above
\* 25, entirely below 1
RangePairs ==
    { <<1, 1>>, <<1, 2>>, <<2, 1>>, <<24, 25>>, <<27, 27>>, <<-1, -1>> }

\* a Python argument is an int or a pair of ints
IntArg(n) == [kind |-> "int", val |-> n]
TupleArg(a, b) == [kind |-> "tuple", val |-> <<a, b>>]

RangeArgs == {TupleArg(p[1], p[2]) : p \in RangePairs}

\* the rank arguments tried, negative ones included
Ranks == -1..MaxRank

\* the min_prefix_length arguments tried
MinPrefixLengths == -1..MaxMinPrefixLength

\* line 95: the default of min_prefix_length
DefaultMinPrefixLength == 2

\* the difficulty1 arguments tried: the int the signature asks for, or a pair
Difficulty1Args == {IntArg(1), IntArg(13), TupleArg(1, 2)}

\* the probability_goal arguments tried, as integer weights
Weights == {0, 1}

\* the difficulty2 arguments tried
Difficulty2Args == {1, MaxRank}

\* a frame that is not live
NoFrame == [word_tuples |-> <<>>]

----------------------------------------------------------------------------
(* generate_alphabetical_order_recall_words: the call *)

\* lines 26-43: unpack and normalise difficulty_range, build the letter index
AlphaCall(difficulty_range, count, tuple_size, who) ==
    /\ caller' = who
    /\ IF difficulty_range.kind # "tuple"
       THEN \* line 29: cannot unpack non-iterable int
            /\ pc' = "raised"
            /\ exception' = "TypeError"
            /\ alpha' = NoFrame
       ELSE /\ pc' = "a_loop"
            /\ exception' = exception
            /\ alpha' = [ difficulty_range |-> difficulty_range.val,
                          count |-> count,
                          tuple_size |-> tuple_size,
                          min_distance |-> NormalizeRange(difficulty_range.val)[1],
                          max_distance |-> NormalizeRange(difficulty_range.val)[2],
                          letter_to_words |-> LetterToWords(valid_words),
                          letters |-> SortedLetters(LetterToWords(valid_words)),
                          i |-> 0,
                          start_index |-> 0,
                          words_in_tuple |-> <<>>,
                          used_letters |-> {},
                          j |-> 0,
                          new_letter |-> "",
                          attempts |-> 0,
                          word_tuples |-> <<>> ]

\* lines 45-56: next iteration: anchor letter and first word
AlphaStart ==
    /\ pc = "a_loop"
    /\ LoopContinues(alpha.i, alpha.count)
    /\ IF alpha.letters = <<>>
       THEN \* line 47: random.choice of an empty sequence
            /\ pc' = "raised"
            /\ exception' = "IndexError"
            /\ alpha' = alpha
       ELSE /\ \E s \in 1..Len(alpha.letters) :
                 LET start_letter == alpha.letters[s]
                 IN  \E f \in 1..Len(alpha.letter_to_words[start_letter]) :
                        alpha' = [alpha EXCEPT
                            !.start_index = LetterIndex(start_letter),
                            !.words_in_tuple = <<alpha.letter_to_words[start_letter][f]>>,
                            !.used_letters = {start_letter},
                            !.j = 0]
            /\ pc' = "a_slot"
            /\ exception' = exception
    /\ UNCHANGED <<valid_words, called, caller, sort, mixed, result>>

\* lines 59-65: next slot: first distance drawn
AlphaSlot ==
    /\ pc = "a_slot"
    /\ IF alpha.j < alpha.tuple_size - 1
       THEN /\ \E distance \in alpha.min_distance..alpha.max_distance :
                 alpha' = [alpha EXCEPT
                     !.new_letter = NewLetter(alpha.start_index, distance),
                     !.attempts = 0]
            /\ pc' = "a_while"
       ELSE /\ alpha' = alpha
            /\ pc' = "a_emit"
    /\ UNCHANGED <<valid_words, called, caller, sort, mixed, result, exception>>

\* lines 69-74: one pass of the resampling loop
AlphaResample ==
    /\ pc = "a_while"
    /\ MustResample(alpha.new_letter, alpha.used_letters, alpha.letter_to_words, alpha.attempts)
    /\ \E distance \in alpha.min_distance..alpha.max_distance :
         alpha' = [alpha EXCEPT
             !.new_letter = NewLetter(alpha.start_index, distance),
             !.attempts = alpha.attempts + 1]
    /\ UNCHANGED <<valid_words, pc, called, caller, sort, mixed, result, exception>>

\* lines 76-83: after the loop: give the tuple up, or fill the slot
AlphaFill ==
    /\ pc = "a_while"
    /\ ~MustResample(alpha.new_letter, alpha.used_letters, alpha.letter_to_words, alpha.attempts)
    /\ IF GivesUp(alpha.attempts)
       THEN /\ alpha' = alpha
            /\ pc' = "a_emit"
            /\ exception' = exception
       ELSE /\ \E k \in 1..Len(alpha.letter_to_words[alpha.new_letter]) :
                 alpha' = [alpha EXCEPT
                     !.words_in_tuple = Append(@, alpha.letter_to_words[alpha.new_letter][k]),
                     !.used_letters = @ \cup {alpha.new_letter},
                     !.j = @ + 1]
            /\ pc' = "a_slot"
            /\ exception' = exception
    /\ UNCHANGED <<valid_words, called, caller, sort, mixed, result>>

\* lines 85-90: emit the tuple if complete, else drop it
AlphaEmit ==
    /\ pc = "a_emit"
    /\ alpha' = [alpha EXCEPT
           !.word_tuples = IF IsComplete(alpha.words_in_tuple, alpha.tuple_size)
                           THEN Append(@, alpha.words_in_tuple) ELSE @,
           !.i = @ + 1]
    /\ pc' = "a_loop"
    /\ UNCHANGED <<valid_words, called, caller, sort, mixed, result, exception>>

\* line 92: return word_tuples
AlphaReturn ==
    /\ pc = "a_loop"
    /\ ~LoopContinues(alpha.i, alpha.count)
    /\ IF caller = ""
       THEN /\ pc' = "done"
            /\ result' = alpha.word_tuples
            /\ UNCHANGED <<alpha, mixed, caller>>
       ELSE /\ pc' = "m_extend"
            /\ result' = result
            /\ mixed' = [mixed EXCEPT !.tuples = alpha.word_tuples]
            /\ alpha' = NoFrame
            /\ caller' = ""
    /\ UNCHANGED <<valid_words, called, sort, exception>>

\* a top-level call of generate_alphabetical_order_recall_words
generate_alphabetical_order_recall_words ==
    /\ pc = "idle"
    /\ called' = "generate_alphabetical_order_recall_words"
    /\ \E difficulty_range \in RangeArgs, count \in 0..MaxCount, tuple_size \in 0..MaxTupleSize :
         AlphaCall(difficulty_range, count, tuple_size, "")
    /\ UNCHANGED <<valid_words, sort, mixed, result>>

----------------------------------------------------------------------------
(* generate_sorting_algorithm_words: the call *)

\* lines 109-137: empty word list returns at once, else build the prefix index
SortCall(rank, count, tuple_size, min_prefix_length, who) ==
    /\ caller' = who
    /\ sort' = [ rank |-> rank,
                 count |-> count,
                 tuple_size |-> tuple_size,
                 min_prefix_length |-> min_prefix_length,
                 prefix_to_words |-> IF valid_words = <<>> THEN <<>>
                                     ELSE PrefixToWords(valid_words, rank, min_prefix_length),
                 i |-> 0,
                 word_tuples |-> <<>> ]
    /\ pc' = IF valid_words = <<>> THEN "s_return" ELSE "s_loop"

\* lines 139-153: one iteration: pick a prefix, skip a small bucket, else sample
SortIter ==
    /\ pc = "s_loop"
    /\ LoopContinues(sort.i, sort.count)
    /\ IF DOMAIN sort.prefix_to_words = {}
       THEN \* line 142: break
            /\ sort' = sort
            /\ pc' = "s_return"
       ELSE /\ \E prefix \in DOMAIN sort.prefix_to_words :
                 LET words_with_prefix == sort.prefix_to_words[prefix]
                 IN  IF TooFew(words_with_prefix, sort.tuple_size)
                     THEN sort' = [sort EXCEPT !.i = @ + 1]
                     ELSE \E words_in_tuple \in Samples(words_with_prefix, sort.tuple_size) :
                            sort' = [sort EXCEPT
                                !.word_tuples = Append(@, words_in_tuple),
                                !.i = @ + 1]
            /\ pc' = "s_loop"
    /\ UNCHANGED <<valid_words, called, caller, alpha, mixed, result, exception>>

\* line 139: the loop is exhausted
SortLoopEnd ==
    /\ pc = "s_loop"
    /\ ~LoopContinues(sort.i, sort.count)
    /\ pc' = "s_return"
    /\ UNCHANGED <<valid_words, called, caller, alpha, sort, mixed, result, exception>>

\* lines 111, 155: return word_tuples
SortReturn ==
    /\ pc = "s_return"
    /\ IF caller = ""
       THEN /\ pc' = "done"
            /\ result' = sort.word_tuples
            /\ UNCHANGED <<sort, mixed, caller>>
       ELSE /\ pc' = "m_after_sort"
            /\ result' = result
            /\ mixed' = [mixed EXCEPT !.tuples = sort.word_tuples]
            /\ sort' = NoFrame
            /\ caller' = ""
    /\ UNCHANGED <<valid_words, called, alpha, exception>>

\* a top-level call of generate_sorting_algorithm_words
generate_sorting_algorithm_words ==
    /\ pc = "idle"
    /\ called' = "generate_sorting_algorithm_words"
    /\ \E rank \in Ranks, count \in 0..MaxCount, tuple_size \in 0..MaxTupleSize,
          min_prefix_length \in MinPrefixLengths :
         SortCall(rank, count, tuple_size, min_prefix_length, "")
    /\ UNCHANGED <<valid_words, alpha, mixed, result, exception>>

----------------------------------------------------------------------------
(* generate_word_tuples *)

\* lines 175-176: the call
generate_word_tuples ==
    /\ pc = "idle"
    /\ called' = "generate_word_tuples"
    /\ \E count \in 0..MaxCount, tuple_size \in 0..MaxTupleSize,
          probability_goal1 \in Weights, probability_goal2 \in Weights,
          difficulty1 \in Difficulty1Args, difficulty2 \in Difficulty2Args :
         mixed' = [ count |-> count,
                    tuple_size |-> tuple_size,
                    probability_goal1 |-> probability_goal1,
                    probability_goal2 |-> probability_goal2,
                    total_probability |-> probability_goal1 + probability_goal2,
                    difficulty1 |-> difficulty1,
                    difficulty2 |-> difficulty2,
                    i |-> 0,
                    tuples |-> <<>>,
                    word_tuples |-> <<>> ]
    /\ pc' = "m_loop"
    /\ UNCHANGED <<valid_words, caller, alpha, sort, result, exception>>

\* line 179: the values random.uniform(0, total_probability) can take, on the
\* grid of the integer weights
UniformDraws(total_probability) == 0..Max(total_probability - 1, 0)

\* lines 178-184: one iteration: draw r and call one of the generators
MixedIter ==
    /\ pc = "m_loop"
    /\ LoopContinues(mixed.i, mixed.count)
    /\ \E r \in UniformDraws(mixed.total_probability) :
         IF r < mixed.probability_goal1
         THEN /\ AlphaCall(mixed.difficulty1, 1, mixed.tuple_size, "generate_word_tuples")
              /\ sort' = sort
         ELSE /\ SortCall(mixed.difficulty2, 1, mixed.tuple_size, DefaultMinPrefixLength,
                           "generate_word_tuples")
              /\ UNCHANGED <<alpha, exception>>
    /\ UNCHANGED <<valid_words, called, mixed, result>>

\* lines 185-189: the prefix generator returned: keep its tuple or fall back
MixedAfterSort ==
    /\ pc = "m_after_sort"
    /\ IF mixed.tuples # <<>>
       THEN /\ mixed' = [mixed EXCEPT !.word_tuples = @ \o mixed.tuples, !.i = @ + 1]
            /\ pc' = "m_loop"
            /\ UNCHANGED <<caller, alpha, exception>>
       ELSE /\ AlphaCall(mixed.difficulty1, 1, mixed.tuple_size, "generate_word_tuples")
            /\ mixed' = mixed
    /\ UNCHANGED <<valid_words, called, sort, result>>

\* lines 182, 190: word_tuples.extend(tuples) after the alphabetical generator
MixedExtend ==
    /\ pc = "m_extend"
    /\ mixed' = [mixed EXCEPT !.word_tuples = @ \o mixed.tuples, !.i = @ + 1]
    /\ pc' = "m_loop"
    /\ UNCHANGED <<valid_words, called, caller, alpha, sort, result, exception>>

\* line 192: return word_tuples
MixedReturn ==
    /\ pc = "m_loop"
    /\ ~LoopContinues(mixed.i, mixed.count)
    /\ pc' = "done"
    /\ result' = mixed.word_tuples
    /\ UNCHANGED <<valid_words, called, caller, alpha, sort, mixed, exception>>

----------------------------------------------------------------------------

Init ==
    /\ valid_words \in WordLists
    /\ pc = "idle"
    /\ called = ""
    /\ caller = ""
    /\ alpha = NoFrame
    /\ sort = NoFrame
    /\ mixed = NoFrame
    /\ result = <<>>
    /\ exception = ""

NextAlpha ==
    \/ generate_alphabetical_order_recall_words
    \/ AlphaStart
    \/ AlphaSlot
    \/ AlphaResample
    \/ AlphaFill
    \/ AlphaEmit
    \/ AlphaReturn

SpecAlpha == Init /\ [][NextAlpha]_vars

NextSort ==
    \/ generate_sorting_algorithm_words
    \/ SortIter
    \/ SortLoopEnd
    \/ SortReturn

SpecSort == Init /\ [][NextSort]_vars

Next ==
    \/ generate_alphabetical_order_recall_words
    \/ AlphaStart
    \/ AlphaSlot
    \/ AlphaResample
    \/ AlphaFill
    \/ AlphaEmit
    \/ AlphaReturn
    \/ generate_sorting_algorithm_words
    \/ SortIter
    \/ SortLoopEnd
    \/ SortReturn
    \/ generate_word_tuples
    \/ MixedIter
    \/ MixedAfterSort
    \/ MixedExtend
    \/ MixedReturn

Spec == Init /\ [][Next]_vars

----------------------------------------------------------------------------
(* Properties *)

AlphaName == "generate_alphabetical_order_recall_words"
SortName == "generate_sorting_algorithm_words"
MixedName == "generate_word_tuples"

AlphaLive == alpha # NoFrame
SortLive == sort # NoFrame
MixedLive == mixed # NoFrame

\* index in the alphabet of the lower-cased first letter of a word
FirstLetterIndex(w) == LetterIndex(LowerChar(w[1]))

\* the input pair is a normalized range
InRange(r) == 1 <= r[1] /\ r[1] <= r[2] /\ r[2] <= MaxDistance

\* C1: for every pair passed as difficulty_range, the (min_distance,
\* max_distance) used for sampling satisfies 1 <= min <= max <= 25.
C1_SamplingRangeClamped ==
    AlphaLive =>
        /\ 1 <= alpha.min_distance
        /\ alpha.min_distance <= alpha.max_distance
        /\ alpha.max_distance <= MaxDistance

\* C2: for a range (min,max) with 1 <= min <= max <= 25 and tuple_size >= 2,
\* in every emitted tuple the letter index i2 of each non-anchor word and the
\* letter index i1 of the anchor word satisfy (i2 - i1) mod 26 in [min,max].
C2_AnchorDistanceInRange ==
    (AlphaLive /\ InRange(alpha.difficulty_range) /\ alpha.tuple_size >= 2) =>
        \A n \in DOMAIN alpha.word_tuples :
            LET t == alpha.word_tuples[n]
            IN  \A k \in 2..Len(t) :
                    ((FirstLetterIndex(t[k]) - FirstLetterIndex(t[1])) % AlphabetSize)
                        \in alpha.difficulty_range[1]..alpha.difficulty_range[2]

\* a tuple was emitted for an in-range band, its second letter wrapping
\* around the end of the alphabet
C2_Witness ==
    /\ AlphaLive /\ InRange(alpha.difficulty_range) /\ alpha.tuple_size >= 2
    /\ \E n \in DOMAIN alpha.word_tuples :
          FirstLetterIndex(alpha.word_tuples[n][2]) < FirstLetterIndex(alpha.word_tuples[n][1])

\* C3: for every input, the words of each emitted alphabetical tuple have
\* pairwise distinct lower-cased starting letters.
C3_DistinctStartingLetters ==
    AlphaLive =>
        \A n \in DOMAIN alpha.word_tuples :
            LET t == alpha.word_tuples[n]
            IN  \A a, b \in DOMAIN t :
                    a # b => LowerChar(t[a][1]) # LowerChar(t[b][1])

\* a three-word tuple was emitted for a band that holds a distance (0 or 26)
\* leading back to the anchor letter
C3_Witness ==
    /\ AlphaLive
    /\ alpha.tuple_size = 3
    /\ alpha.word_tuples # <<>>
    /\ \E d \in alpha.min_distance..alpha.max_distance : d % AlphabetSize = 0

\* no word of the list has an a-z first letter
NoLetterWords == \A k \in DOMAIN valid_words : ~HasLetter(valid_words[k])

\* C4: when the word source is empty or has no word with an a-z first
\* letter, every generator returns an empty sequence and does not raise.
C4_EmptySourceReturnsEmpty ==
    NoLetterWords =>
        /\ exception = ""
        /\ pc = "done" => result = <<>>

\* the prefix index generate_word_tuples gets from the prefix generator has
\* no bucket of tuple_size words
NoBucketReaches ==
    \/ valid_words = <<>>
    \/ LET ptw == PrefixToWords(valid_words, mixed.difficulty2, DefaultMinPrefixLength)
       IN  \A p \in DOMAIN ptw : TooFew(ptw[p], mixed.tuple_size)

\* from every anchor letter the letter at the distance has words
PairFeasible(distance) ==
    LET ltw == LetterToWords(valid_words)
    IN  /\ DOMAIN ltw # {}
        /\ \A l \in DOMAIN ltw :
              ~Unsuitable(NewLetter(LetterIndex(l), distance), {l}, ltw)

\* C5: generate_word_tuples with an integer difficulty1 calls the
\* alphabetical generator with the band (difficulty1, difficulty1), returns
\* normally, and in the fallback scenario returns a non-empty result.
C5_IntDifficultyIsABand ==
    (called = MixedName /\ mixed.difficulty1.kind = "int") =>
        /\ exception = ""
        /\ AlphaLive =>
              alpha.difficulty_range = <<mixed.difficulty1.val, mixed.difficulty1.val>>
        /\ ( /\ pc = "done"
             /\ mixed.count >= 1
             /\ mixed.tuple_size = 2
             /\ NoBucketReaches
             /\ PairFeasible(mixed.difficulty1.val) ) => result # <<>>

\* the end-to-end scenario: the fruit list, difficulty_range (1,1),
\* tuple_size 2, count 1, the call returned
FruitScenarioDone ==
    /\ called = AlphaName
    /\ pc = "done"
    /\ valid_words = FruitList
    /\ alpha.difficulty_range = <<1, 1>>
    /\ alpha.tuple_size = 2
    /\ alpha.count = 1

\* C6 as stated: the scenario returns exactly one tuple, an "a"-word
\* followed by a "b"-word, whatever the random draws.
C6_FruitAlwaysAThenB ==
    FruitScenarioDone =>
        /\ Len(result) = 1
        /\ LowerChar(result[1][1][1]) = "a"
        /\ LowerChar(result[1][2][1]) = "b"

\* C6 as amended: the scenario returns no tuple when the anchor letter drawn
\* is "c", and else exactly one tuple: the anchor's word followed by a word
\* of the next letter ("a" then "b", or "b" then "c").
C6_FruitNextLetterOrNothing ==
    FruitScenarioDone =>
        IF ascii_lowercase[alpha.start_index + 1] = "c"
        THEN result = <<>>
        ELSE /\ Len(result) = 1
             /\ Len(result[1]) = 2
             /\ FirstLetterIndex(result[1][1]) = alpha.start_index
             /\ FirstLetterIndex(result[1][2]) = alpha.start_index + 1
             /\ alpha.start_index \in {0, 1}

\* the scenario returned an "a"-word followed by a "b"-word
C6_Witness ==
    /\ FruitScenarioDone
    /\ Len(result) = 1
    /\ LowerChar(result[1][1][1]) = "a"
    /\ LowerChar(result[1][2][1]) = "b"

\* all words of the tuple are indexed under one key: the long ones have it
\* as their rank-length lower-cased prefix, the short ones are a prefix of it
SharesPrefixOrStem(t, rank) ==
    \E key \in Prefixes(valid_words, rank) :
        \A k \in DOMAIN t :
            IF Len(t[k]) >= rank
            THEN Slice(Lower(t[k]), rank) = key
            ELSE StartsWith(key, Lower(t[k]))

\* the words differ at the 0-based position: the characters differ, or one
\* word has ended and the other has not
DifferAt(u, v, position) ==
    \/ position < Len(u) /\ position < Len(v) /\ u[position + 1] # v[position + 1]
    \/ position < Len(u) /\ position >= Len(v)
    \/ position >= Len(u) /\ position < Len(v)

\* C7 as stated: for rank >= 1, the words of each emitted tuple share the
\* rank-length prefix or are stems of it, and no two of them differ (one
\* ending included) at a position before rank.
C7_FirstDifferenceAtOrAfterRank ==
    (SortLive /\ sort.rank >= 1) =>
        \A n \in DOMAIN sort.word_tuples :
            LET t == sort.word_tuples[n]
            IN  /\ SharesPrefixOrStem(t, sort.rank)
                /\ \A a, b \in DOMAIN t : \A position \in 0..(sort.rank - 1) :
                      ~DifferAt(Lower(t[a]), Lower(t[b]), position)

\* C7 as amended: for rank >= 1, the words of each emitted tuple share the
\* rank-length prefix or are stems of it, and any two of them agree on every
\* position before rank that both words have.
C7_AgreeBeforeRankWhereBothReach ==
    (SortLive /\ sort.rank >= 1) =>
        \A n \in DOMAIN sort.word_tuples :
            LET t == sort.word_tuples[n]
            IN  /\ SharesPrefixOrStem(t, sort.rank)
                /\ \A a, b \in DOMAIN t : \A position \in 0..(sort.rank - 1) :
                      (position < Len(t[a]) /\ position < Len(t[b])) =>
                          Lower(t[a])[position + 1] = Lower(t[b])[position + 1]

\* a tuple was emitted that holds a stem shorter than rank next to a word of
\* at least rank characters
C7_Witness ==
    /\ SortLive /\ sort.rank >= 1
    /\ \E n \in DOMAIN sort.word_tuples :
          LET t == sort.word_tuples[n]
          IN  \E a, b \in DOMAIN t :
                /\ Len(t[a]) < sort.rank /\ Len(t[a]) >= 1
                /\ Len(t[b]) >= sort.rank

\* C8: for rank <= 0 and a non-empty word list, the prefix index has exactly
\* one key, the empty string, and its bucket holds every word of the list.
C8_NonPositiveRankOneBucket ==
    (SortLive /\ sort.rank <= 0 /\ valid_words # <<>>) =>
        /\ DOMAIN sort.prefix_to_words = {<<>>}
        /\ sort.prefix_to_words[<<>>] = valid_words

\* C9: asked for N tuples, generate_word_tuples runs its loop N times, each
\* iteration appending at most one tuple, and every generator that returns
\* returns at most N tuples.
C9_AtMostCount ==
    /\ MixedLive => /\ Len(mixed.word_tuples) <= mixed.i
                    /\ mixed.i <= mixed.count
    /\ (pc = "done" /\ called = MixedName) =>
            /\ mixed.i = mixed.count
            /\ Len(result) <= mixed.count
    /\ (pc = "done" /\ called = AlphaName) => Len(result) <= alpha.count
    /\ (pc = "done" /\ called = SortName) => Len(result) <= sort.count

\* generate_word_tuples returned as many tuples as it was asked for
C9_Witness ==
    /\ pc = "done" /\ called = MixedName
    /\ mixed.count >= 1
    /\ Len(result) = mixed.count

\* C10: when the resampling loop of a slot ends on a letter that is unused
\* and has words, the slot is filled with a word of that letter; and no
\* tuple of fewer than tuple_size words is emitted.  Stated for the bands
\* with 1 <= min <= max <= 25, where the sampling range is the band itself.
C10_SuitableLetterFillsSlot ==
    /\ [][ ( /\ pc = "a_while"
             /\ InRange(alpha.difficulty_range)
             /\ ~MustResample(alpha.new_letter, alpha.used_letters,
                               alpha.letter_to_words, alpha.attempts)
             /\ ~Unsuitable(alpha.new_letter, alpha.used_letters, alpha.letter_to_words) )
           => /\ Len(alpha'.words_in_tuple) = Len(alpha.words_in_tuple) + 1
              /\ LowerChar(alpha'.words_in_tuple[Len(alpha'.words_in_tuple)][1])
                    = alpha.new_letter ]_vars
    /\ [](AlphaLive => \A n \in DOMAIN alpha.word_tuples :
                          Len(alpha.word_tuples[n]) = alpha.tuple_size)

====
